---- MODULE Spec2Model ----
(***************************************************************************)
(* Snap-sync range server of core/snap_server.go: the bounded walk         *)
(* iterateWithLimit with its proof merge, and the four operations of       *)
(* SnapServer built on it (GetTrieRootAt, GetClassRange, GetAddressRange,  *)
(* GetContractRange).                                                      *)
(*                                                                         *)
(* A trie is the set of its leaf keys; the value of a leaf is LeafValue.   *)
(* The trie package (Iterate, ProofTo, Root) and felt.Cmp are outside      *)
(* snap_server.go and are modelled from their contract: a binary Patricia  *)
(* trie of height Height over the keys 0..MaxKey.                          *)
(***************************************************************************)
EXTENDS Integers, Sequences, FiniteSets

VARIABLES snap, call

vars == <<snap, call>>

(***************************************************************************)
(* Bounds.                                                                 *)
(***************************************************************************)
\* Keys (felts) are 0..MaxKey.
MaxKey == 3

\* const maxNodePerRequest = 1024 * 16 (snap_server.go:60), scaled down so
\* that a trie of MaxKey + 1 leaves can exhaust it.  Every formula below is
\* stated in terms of this name.
maxNodePerRequest == 3

\* Longest request list handed to GetContractRange.
MaxRequests == 2

Felts == 0 .. MaxKey

\* A nil *felt.Felt.
Nil == -1

\* Deployed-contract addresses of the modelled snapshots.
Addrs == {0, 1}

RECURSIVE Bits(_)
Bits(n) == IF n = 0 THEN 0 ELSE 1 + Bits(n \div 2)

\* Height of the modelled tries: the bit length of the largest key.
Height == Bits(MaxKey)

RECURSIVE Pow2(_)
Pow2(n) == IF n = 0 THEN 1 ELSE 2 * Pow2(n - 1)

(***************************************************************************)
(* Errors and injected collaborator failures.  A Fault names the           *)
(* collaborator call that fails and its argument: the ordinal of the leaf  *)
(* for Iterate, the key for the lookups and ProofTo.  One fault is enough  *)
(* per call, since the first error ends the call.                          *)
(***************************************************************************)
NoErr == "nil"

NoFault == [op |-> "none", at |-> 0]

Fails(fault, op, at) == fault.op = op /\ fault.at = at

(***************************************************************************)
(* The trie collaborator.                                                  *)
(***************************************************************************)
LeafValue(key) == key + 1

RECURSIVE SetHash(_)
SetHash(S) ==
    IF S = {} THEN 0
    ELSE LET k == CHOOSE x \in S : \A y \in S : x >= y
         IN  Pow2(k) + SetHash(S \ {k})

\* Trie.Root(): a commitment to the leaves; zero for the empty trie.
Root(trie) == SetHash(trie)

\* felt.Cmp: three-way comparison, -1, 0 or 1.
Cmp(a, b) == IF a < b THEN -1 ELSE IF a > b THEN 1 ELSE 0

RECURSIVE SortedSeq(_)
SortedSeq(S) ==
    IF S = {} THEN <<>>
    ELSE LET k == CHOOSE x \in S : \A y \in S : x <= y
         IN  <<k>> \o SortedSeq(S \ {k})

\* The leaves Trie.Iterate(startAddr, ...) offers to its callback, in order.
IterateLeaves(trie, startAddr) ==
    SortedSeq({k \in trie : startAddr = Nil \/ k >= startAddr})

Prefix(key, len) == key \div Pow2(Height - len)

Under(trie, len, p) == {k \in trie : Prefix(k, len) = p}

\* A node sits at a full-length leaf key and at every branching point.
NodeAt(trie, len, p) ==
    /\ Under(trie, len, p) # {}
    /\ \/ len = Height
       \/ /\ Under(trie, len + 1, 2 * p) # {}
          /\ Under(trie, len + 1, 2 * p + 1) # {}

ProofNode(trie, len, p) ==
    [Key |-> <<len, p>>, Hash |-> SetHash(Under(trie, len, p))]

RECURSIVE ProofFrom(_, _, _)
ProofFrom(trie, key, len) ==
    IF len > Height THEN <<>>
    ELSE (IF NodeAt(trie, len, Prefix(key, len))
          THEN <<ProofNode(trie, len, Prefix(key, len))>>
          ELSE <<>>) \o ProofFrom(trie, key, len + 1)

\* Trie.ProofTo(key): the nodes from the root down to the leaf at key.
ProofTo(trie, key) == ProofFrom(trie, key, 0)

(***************************************************************************)
(* iterateWithLimit, lines 143-161: the merge of the two boundary proofs.  *)
(***************************************************************************)
\* Variant: the nodes are compared whole instead of by Key.
RECURSIVE alreadyExist_m(_, _, _)
alreadyExist_m(proofs, proof, i) ==
    IF i > Len(proofs) THEN FALSE
    ELSE IF proofs[i] = proof THEN TRUE
    ELSE alreadyExist_m(proofs, proof, i + 1)

RECURSIVE alreadyExist(_, _, _)
alreadyExist(proofs, proof, i) ==
    IF i > Len(proofs) THEN FALSE
    ELSE IF proofs[i].Key = proof.Key THEN TRUE
    ELSE alreadyExist(proofs, proof, i + 1)

RECURSIVE mergeLoop(_, _, _)
mergeLoop(proofs, rightProof, j) ==
    IF j > Len(rightProof) THEN proofs
    ELSE IF alreadyExist(proofs, rightProof[j], 1)
         THEN mergeLoop(proofs, rightProof, j + 1)
         ELSE mergeLoop(Append(proofs, rightProof[j]), rightProof, j + 1)

\* Variant: the loop over rightProof starts one node late.
merge_m(leftProof, rightProof) == mergeLoop(leftProof, rightProof, 2)

merge(leftProof, rightProof) == mergeLoop(leftProof, rightProof, 1)

(***************************************************************************)
(* The consumers handed to iterateWithLimit.  Each one is a closure over   *)
(* the response under construction; consume returns the response after the *)
(* invocation and the error the invocation returns.                        *)
(***************************************************************************)
\* State.Class(key), ContractClassHash(key), ContractNonce(key): data of
\* the state reader, a function of the key here.
ClassOf(key) == 2 * key + 1

ClassHashOf(key) == 3 * key + 1

NonceOf(key) == key

\* Variant: the leaf value is appended to Paths instead of ClassHashes.
classConsumer_m(response, key, fault) ==
    IF Fails(fault, "Class", key)
    THEN [response |-> [response EXCEPT
                          !.Paths = Append(Append(@, key), LeafValue(key))],
          err |-> "Class"]
    ELSE [response |-> [response EXCEPT
                          !.Paths = Append(Append(@, key), LeafValue(key)),
                          !.Classes = Append(@, ClassOf(key))],
          err |-> NoErr]

\* Lines 182-193: the consumer of GetClassRange.
classConsumer(response, key, fault) ==
    LET r1 == [response EXCEPT !.Paths = Append(@, key),
                               !.ClassHashes = Append(@, LeafValue(key))]
    IN  IF Fails(fault, "Class", key)
        THEN [response |-> r1, err |-> "Class"]
        ELSE [response |-> [r1 EXCEPT !.Classes = Append(@, ClassOf(key))],
              err |-> NoErr]

\* Lines 213-245: the consumer of GetAddressRange.
addressConsumer(s, response, key, fault) ==
    LET r1 == [response EXCEPT !.Paths = Append(@, key),
                               !.Hashes = Append(@, LeafValue(key))]
    IN  IF Fails(fault, "ContractClassHash", key)
        THEN [response |-> r1, err |-> "ContractClassHash"]
        ELSE IF Fails(fault, "ContractNonce", key)
        THEN [response |-> r1, err |-> "ContractNonce"]
        ELSE IF key \notin DOMAIN s.contracts \/ Fails(fault, "Contract", key)
        THEN [response |-> r1, err |-> "Contract"]
        ELSE IF Fails(fault, "ContractRoot", key)
        THEN [response |-> r1, err |-> "ContractRoot"]
        ELSE [response |->
                  [r1 EXCEPT !.Leaves =
                       Append(@, [StorageRoot |-> Root(s.contracts[key]),
                                  ClassHash |-> ClassHashOf(key),
                                  Nonce |-> NonceOf(key)])],
              err |-> NoErr]

\* Lines 298-302: the consumer of handleStorageRangeRequest.
storageConsumer(response, key) ==
    [response |-> [response EXCEPT !.Paths = Append(@, key),
                                   !.Values = Append(@, LeafValue(key))],
     err |-> NoErr]

\* A consumer that only logs its invocations, for the walk on its own.
logConsumer(response, key, fault) ==
    [response |-> [response EXCEPT !.visited = Append(@, key)],
     err |-> IF Fails(fault, "consumer", key) THEN "consumer" ELSE NoErr]

consume(kind, s, response, key, fault) ==
    CASE kind = "class" -> classConsumer(response, key, fault)
      [] kind = "address" -> addressConsumer(s, response, key, fault)
      [] kind = "storage" -> storageConsumer(response, key)
      [] OTHER -> logConsumer(response, key, fault)

(***************************************************************************)
(* iterateWithLimit, lines 93-125: the callback handed to Trie.Iterate.    *)
(* The walk state w holds the locals the callback captures and the         *)
(* response the consumer captures.                                         *)
(***************************************************************************)
initWalk(response) ==
    [pathes |-> <<>>, hashes |-> <<>>, startPath |-> Nil, endPath |-> Nil,
     count |-> 0, response |-> response, err |-> NoErr, more |-> TRUE]

\* Line 103: the limit test.
pastLimit(key, limitAddr, count) ==
    limitAddr # Nil /\ Cmp(key, limitAddr) > 1 /\ count > 0

\* Line 121: the count test after a leaf is accepted.
reachedMax(count, maxNode) == count >= maxNode

\* Variant: the leaf's value is appended to pathes in place of its key.
takeLeaf_m(w, key, maxNode, c) ==
    IF c.err # NoErr
    THEN [w EXCEPT !.startPath = IF w.startPath = Nil THEN key ELSE @,
                   !.pathes = Append(@, LeafValue(key)),
                   !.hashes = Append(@, LeafValue(key)),
                   !.response = c.response,
                   !.more = FALSE,
                   !.err = c.err]
    ELSE [w EXCEPT !.startPath = IF w.startPath = Nil THEN key ELSE @,
                   !.pathes = Append(@, LeafValue(key)),
                   !.hashes = Append(@, LeafValue(key)),
                   !.response = c.response,
                   !.endPath = key,
                   !.count = @ + 1,
                   !.more = ~reachedMax(w.count + 1, maxNode)]

\* Lines 107-124: the leaf is taken; c is what the consumer returned.
takeLeaf(w, key, maxNode, c) ==
    IF c.err # NoErr
    THEN [w EXCEPT !.startPath = IF w.startPath = Nil THEN key ELSE @,
                   !.pathes = Append(@, key),
                   !.hashes = Append(@, LeafValue(key)),
                   !.response = c.response,
                   !.more = FALSE,
                   !.err = c.err]
    ELSE [w EXCEPT !.startPath = IF w.startPath = Nil THEN key ELSE @,
                   !.pathes = Append(@, key),
                   !.hashes = Append(@, LeafValue(key)),
                   !.response = c.response,
                   !.endPath = key,
                   !.count = @ + 1,
                   !.more = ~reachedMax(w.count + 1, maxNode)]

\* Lines 101-125: the callback.
visitLeaf(kind, s, w, key, limitAddr, maxNode, fault) ==
    IF pastLimit(key, limitAddr, w.count)
    THEN [w EXCEPT !.more = FALSE]
    ELSE takeLeaf(w, key, maxNode, consume(kind, s, w.response, key, fault))

\* Trie.Iterate driving the callback: leaf i is offered while the callback
\* asks for more; the trie's storage may fail when leaf i is fetched.
RECURSIVE iterateLoop(_, _, _, _, _, _, _, _)
iterateNext(kind, s, w1, leaves, i, limitAddr, maxNode, fault) ==
    IF w1.more
    THEN iterateLoop(kind, s, w1, leaves, i + 1, limitAddr, maxNode, fault)
    ELSE w1

iterateLoop(kind, s, w, leaves, i, limitAddr, maxNode, fault) ==
    IF Fails(fault, "Iterate", i)
    THEN [w EXCEPT !.more = FALSE, !.err = "Iterate"]
    ELSE IF i > Len(leaves) THEN w
    ELSE iterateNext(kind, s,
                     visitLeaf(kind, s, w, leaves[i], limitAddr, maxNode, fault),
                     leaves, i, limitAddr, maxNode, fault)

\* Variant: every non-empty window gets the proof of its first leaf only.
afterIterate_m(srcTrie, w, fault) ==
    IF w.err # NoErr
    THEN [proofs |-> <<>>, err |-> w.err, walk |-> w]
    ELSE IF w.count >= 1
    THEN IF Fails(fault, "ProofTo", w.startPath)
         THEN [proofs |-> <<>>, err |-> "ProofTo", walk |-> w]
         ELSE [proofs |-> ProofTo(srcTrie, w.startPath), err |-> NoErr, walk |-> w]
    ELSE [proofs |-> <<>>, err |-> NoErr, walk |-> w]

\* Lines 127-164: what follows Trie.Iterate, w being the walk it left.
afterIterate(srcTrie, w, fault) ==
    IF w.err # NoErr
    THEN [proofs |-> <<>>, err |-> w.err, walk |-> w]
    ELSE IF w.count = 1
    THEN IF Fails(fault, "ProofTo", w.startPath)
         THEN [proofs |-> <<>>, err |-> "ProofTo", walk |-> w]
         ELSE [proofs |-> ProofTo(srcTrie, w.startPath), err |-> NoErr, walk |-> w]
    ELSE IF w.count > 1
    THEN IF Fails(fault, "ProofTo", w.startPath) \/ Fails(fault, "ProofTo", w.endPath)
         THEN [proofs |-> <<>>, err |-> "ProofTo", walk |-> w]
         ELSE [proofs |-> merge(ProofTo(srcTrie, w.startPath),
                                ProofTo(srcTrie, w.endPath)),
               err |-> NoErr, walk |-> w]
    ELSE [proofs |-> <<>>, err |-> NoErr, walk |-> w]

\* iterateWithLimit: the returned (proofs, err), with the locals of the
\* walk and the response the consumer has built.  kind selects the
\* consumer, s is the state its lookups read.
iterateWithLimit(kind, s, srcTrie, startAddr, limitAddr, maxNode, response, fault) ==
    afterIterate(srcTrie,
                 iterateLoop(kind, s, initWalk(response),
                             IterateLeaves(srcTrie, startAddr), 1,
                             limitAddr, maxNode, fault),
                 fault)

(***************************************************************************)
(* Handles.  s.storage() and s.classesTrie() return a trie with a closer,  *)
(* which the caller defers; Contract.StorageTrie() returns a trie and no   *)
(* closer.  acquired lists the handles a call opened, defers the closers   *)
(* it registered; a return runs the deferred closers, last one first.      *)
(***************************************************************************)
RECURSIVE Reverse(_)
Reverse(q) == IF q = <<>> THEN <<>> ELSE Append(Reverse(Tail(q)), Head(q))

NilResult == [isNil |-> TRUE]

return(result, err, acquired, defers) ==
    [result |-> result, err |-> err,
     acquired |-> acquired, released |-> Reverse(defers)]

\* Variant: the closer of the state trie is not deferred.
openStorage_m(fault) ==
    IF Fails(fault, "storage", 0)
    THEN [err |-> "storage", acquired |-> <<>>, defers |-> <<>>]
    ELSE [err |-> NoErr, acquired |-> <<"state">>, defers |-> <<>>]

\* strie, stateCloser, err := s.storage(); defer stateCloser()
openStorage(fault) ==
    IF Fails(fault, "storage", 0)
    THEN [err |-> "storage", acquired |-> <<>>, defers |-> <<>>]
    ELSE [err |-> NoErr, acquired |-> <<"state">>, defers |-> <<"state">>]

\* ctrie, classCloser, err := s.classesTrie(); defer classCloser()
openClasses(fault) ==
    IF Fails(fault, "classesTrie", 0)
    THEN [err |-> "classesTrie", acquired |-> <<>>, defers |-> <<>>]
    ELSE [err |-> NoErr, acquired |-> <<"class">>, defers |-> <<"class">>]

(***************************************************************************)
(* GetTrieRootAt, lines 62-91.                                             *)
(***************************************************************************)
GetTrieRootAt(s, fault) ==
    LET st == openStorage(fault)
    IN  IF st.err # NoErr THEN return(NilResult, st.err, <<>>, <<>>)
        ELSE IF Fails(fault, "storageRoot", 0)
        THEN return(NilResult, "storageRoot", st.acquired, st.defers)
        ELSE LET ct == openClasses(fault)
             IN  IF ct.err # NoErr
                 THEN return(NilResult, ct.err, st.acquired, st.defers)
                 ELSE IF Fails(fault, "classRoot", 0)
                 THEN return(NilResult, "classRoot",
                             st.acquired \o ct.acquired, st.defers \o ct.defers)
                 ELSE return([isNil |-> FALSE,
                              StorageRoot |-> Root(s.storage),
                              ClassRoot |-> Root(s.classes)],
                             NoErr,
                             st.acquired \o ct.acquired, st.defers \o ct.defers)

(***************************************************************************)
(* GetClassRange, lines 167-196, and GetAddressRange, lines 198-248.       *)
(***************************************************************************)
\* Lines 195 and 247: return response, err, with response.Proofs assigned
\* from the walk it; h is the trie handle opened before.
rangeReturn(h, it) ==
    return([it.walk.response EXCEPT !.Proofs = it.proofs],
           it.err, h.acquired, h.defers)

classRange(s, startAddr, limitAddr, fault, ct) ==
    IF ct.err # NoErr THEN return(NilResult, ct.err, <<>>, <<>>)
    ELSE rangeReturn(ct,
             iterateWithLimit("class", s, s.classes, startAddr, limitAddr,
                              maxNodePerRequest,
                              [isNil |-> FALSE, Paths |-> <<>>,
                               ClassHashes |-> <<>>, Classes |-> <<>>,
                               Proofs |-> <<>>],
                              fault))

GetClassRange(s, startAddr, limitAddr, fault) ==
    classRange(s, startAddr, limitAddr, fault, openClasses(fault))

addressRange(s, startAddr, limitAddr, fault, st) ==
    IF st.err # NoErr THEN return(NilResult, st.err, <<>>, <<>>)
    ELSE rangeReturn(st,
             iterateWithLimit("address", s, s.storage, startAddr, limitAddr,
                              maxNodePerRequest,
                              [isNil |-> FALSE, Paths |-> <<>>,
                               Hashes |-> <<>>, Leaves |-> <<>>,
                               Proofs |-> <<>>],
                              fault))

GetAddressRange(s, startAddr, limitAddr, fault) ==
    addressRange(s, startAddr, limitAddr, fault, openStorage(fault))

(***************************************************************************)
(* handleStorageRangeRequest, lines 272-305.  walked tells whether         *)
(* iterateWithLimit was invoked.                                           *)
(***************************************************************************)
\* Variant: the negation of the root comparison is lost.
rootMismatch_m(sroot, hash) == sroot = hash

\* Line 288.
rootMismatch(sroot, hash) == ~(sroot = hash)

\* Line 304: return response, err.
storageReturn(it) ==
    [response |-> [it.walk.response EXCEPT !.Proofs = it.proofs],
     err |-> it.err, acquired |-> <<"contract">>, walked |-> TRUE]

handleStorageRangeRequest(s, request, nodeLimit, fault) ==
    IF request.Path \notin DOMAIN s.contracts \/ Fails(fault, "Contract", request.Path)
    THEN [response |-> NilResult, err |-> "Contract",
          acquired |-> <<>>, walked |-> FALSE]
    ELSE IF Fails(fault, "StorageTrie", request.Path)
    THEN [response |-> NilResult, err |-> "StorageTrie",
          acquired |-> <<>>, walked |-> FALSE]
    ELSE IF Fails(fault, "ContractRoot", request.Path)
    THEN [response |-> NilResult, err |-> "ContractRoot",
          acquired |-> <<"contract">>, walked |-> FALSE]
    ELSE IF rootMismatch(Root(s.contracts[request.Path]), request.Hash)
    THEN [response |-> NilResult, err |-> "mismatch",
          acquired |-> <<"contract">>, walked |-> FALSE]
    ELSE storageReturn(
             iterateWithLimit("storage", s, s.contracts[request.Path],
                              request.StartAddr, request.LimitAddr, nodeLimit,
                              [isNil |-> FALSE, Paths |-> <<>>,
                               Values |-> <<>>, Proofs |-> <<>>],
                              fault))

(***************************************************************************)
(* GetContractRange, lines 250-270.  log keeps, per request handed to      *)
(* handleStorageRangeRequest, its index, the node limit passed, the number *)
(* of paths in the windows appended before it and whether the walk ran.    *)
(***************************************************************************)
\* The number of paths in the first n windows of responses.
RECURSIVE SumPaths(_, _)
SumPaths(responses, n) ==
    IF n = 0 THEN 0 ELSE Len(responses[n].Paths) + SumPaths(responses, n - 1)

\* Variant: the budget is not decremented.
nextNodeLimit_m(curNodeLimit, response) == curNodeLimit

\* Line 262.
nextNodeLimit(curNodeLimit, response) == curNodeLimit - Len(response.Paths)

\* Variant: the loop stops only below zero.
budgetSpent_m(curNodeLimit) == curNodeLimit < 0

\* Line 264.
budgetSpent(curNodeLimit) == curNodeLimit <= 0

\* Variant: the budget starts one node short.
initLoop_m ==
    [curNodeLimit |-> maxNodePerRequest - 1, responses |-> <<>>, err |-> NoErr,
     log |-> <<>>, acquired |-> <<>>, more |-> TRUE]

\* The locals of GetContractRange before the first request.
initLoop ==
    [curNodeLimit |-> maxNodePerRequest, responses |-> <<>>, err |-> NoErr,
     log |-> <<>>, acquired |-> <<>>, more |-> TRUE]

\* Lines 257-266: the loop body after handleStorageRangeRequest returned h
\* for requests[i].
afterHandle(l, i, h) ==
    IF h.err # NoErr
    THEN [l EXCEPT
            !.log = Append(@, [index |-> i, nodeLimit |-> l.curNodeLimit,
                               appended |-> SumPaths(l.responses, Len(l.responses)),
                               walked |-> h.walked]),
            !.acquired = @ \o h.acquired,
            !.err = h.err,
            !.more = FALSE]
    ELSE [l EXCEPT
            !.log = Append(@, [index |-> i, nodeLimit |-> l.curNodeLimit,
                               appended |-> SumPaths(l.responses, Len(l.responses)),
                               walked |-> h.walked]),
            !.acquired = @ \o h.acquired,
            !.responses = Append(@, h.response),
            !.curNodeLimit = nextNodeLimit(@, h.response),
            !.more = ~budgetSpent(nextNodeLimit(l.curNodeLimit, h.response))]

\* Lines 255-267: the loop over the requests.
RECURSIVE contractLoop(_, _, _, _, _)
contractNext(s, l1, requests, i, fault) ==
    IF l1.more THEN contractLoop(s, l1, requests, i + 1, fault) ELSE l1

contractLoop(s, l, requests, i, fault) ==
    IF i > Len(requests) THEN l
    ELSE contractNext(s,
             afterHandle(l, i,
                 handleStorageRangeRequest(s, requests[i], l.curNodeLimit, fault)),
             requests, i, fault)

\* Lines 258 and 269: nil with an error, the windows without.  Neither
\* GetContractRange nor handleStorageRangeRequest defers a closer.
contractReturn(l) ==
    [result |-> IF l.err # NoErr THEN NilResult
                ELSE [isNil |-> FALSE, responses |-> l.responses],
     err |-> l.err, log |-> l.log,
     acquired |-> l.acquired, released |-> <<>>]

GetContractRange(s, requests, fault) ==
    contractReturn(contractLoop(s, initLoop, requests, 1, fault))

(***************************************************************************)
(* Snapshots: the class trie, the global state trie and the storage trie   *)
(* of every deployed contract.  All of them are immutable while calls run. *)
(***************************************************************************)
NoContracts == [a \in {} |-> {}]

EmptySnap == [classes |-> {}, storage |-> {}, contracts |-> NoContracts]

NoCall == [op |-> "none"]

\* No call has been made yet.  The snapshot is read-only and calls share no
\* state, so a behaviour is one call on one snapshot.
Idle == call = NoCall

(***************************************************************************)
(* The bounded walk on its own: every trie over Felts, every start, limit  *)
(* and maxNode, every collaborator failure.                                *)
(***************************************************************************)
WalkFaults ==
    {NoFault}
        \cup {[op |-> "Iterate", at |-> i] : i \in 1 .. 2}
        \cup {[op |-> o, at |-> k] : o \in {"consumer", "ProofTo"}, k \in Felts}

InitWalk ==
    /\ snap \in {[EmptySnap EXCEPT !.storage = t] : t \in SUBSET Felts}
    /\ call = NoCall

Walk ==
    /\ Idle
    /\ \E startAddr \in Felts, limitAddr \in {Nil} \cup Felts,
          maxNode \in 0 .. MaxKey + 1, fault \in WalkFaults :
           /\ call' = [op |-> "iterateWithLimit",
                       startAddr |-> startAddr, limitAddr |-> limitAddr,
                       maxNode |-> maxNode, fault |-> fault,
                       ret |-> iterateWithLimit("log", snap, snap.storage, startAddr,
                                                limitAddr, maxNode,
                                                [visited |-> <<>>], fault)]
           /\ UNCHANGED snap

SpecWalk == InitWalk /\ [][Walk]_vars

(***************************************************************************)
(* The merge on its own: every pair of node lists up to MaxProofLen.       *)
(***************************************************************************)
MaxProofLen == 2

MergeNodes == [Key : {<<0, 0>>, <<1, 0>>, <<1, 1>>}, Hash : {1, 2}]

RECURSIVE SeqsUpTo(_, _)
SeqsUpTo(S, n) ==
    IF n = 0 THEN {<<>>}
    ELSE LET shorter == SeqsUpTo(S, n - 1)
         IN  shorter \cup {Append(q, x) : q \in shorter, x \in S}

InitMerge ==
    /\ snap = EmptySnap
    /\ call = NoCall

Merge ==
    /\ Idle
    /\ \E a \in SeqsUpTo(MergeNodes, MaxProofLen),
          b \in SeqsUpTo(MergeNodes, MaxProofLen) :
           /\ call' = [op |-> "merge", left |-> a, right |-> b, ret |-> merge(a, b)]
           /\ UNCHANGED snap

SpecMerge == InitMerge /\ [][Merge]_vars

(***************************************************************************)
(* The server: one call of SnapServer on one snapshot.                     *)
(***************************************************************************)
\* Class tries of the snapshots.
ClassChoices == {{}, {1}, {0, MaxKey}, Felts}

\* Storage tries of the deployed contracts.
StorageChoices == {{}, {0}, Felts}

Snapshots ==
    UNION {UNION {{[classes |-> c, storage |-> st, contracts |-> ct] :
                       ct \in [st -> StorageChoices]} :
                  st \in SUBSET Addrs} :
           c \in ClassChoices}

\* The storage roots a request may claim.
ClaimedRoots == {Root({0}), Root(Felts)}

\* The windows a storage request may ask for.
Ranges == {[StartAddr |-> 0, LimitAddr |-> Nil], [StartAddr |-> 1, LimitAddr |-> 0]}

RequestChoices ==
    {[Path |-> a, Hash |-> h, StartAddr |-> r.StartAddr, LimitAddr |-> r.LimitAddr] :
        a \in Addrs, h \in ClaimedRoots, r \in Ranges}

RootFaults ==
    {NoFault} \cup {[op |-> o, at |-> 0] :
                       o \in {"storage", "storageRoot", "classesTrie", "classRoot"}}

ClassFaults ==
    {NoFault, [op |-> "classesTrie", at |-> 0]}
        \cup {[op |-> "Iterate", at |-> i] : i \in 1 .. 2}
        \cup {[op |-> o, at |-> k] : o \in {"Class", "ProofTo"}, k \in Felts}

AddressFaults ==
    {NoFault, [op |-> "storage", at |-> 0]}
        \cup {[op |-> "Iterate", at |-> i] : i \in 1 .. 2}
        \cup {[op |-> o, at |-> a] :
                 o \in {"ContractClassHash", "ContractNonce", "Contract",
                        "ContractRoot", "ProofTo"},
                 a \in Addrs}

ContractFaults ==
    {NoFault, [op |-> "Iterate", at |-> 1], [op |-> "ProofTo", at |-> 0]}
        \cup {[op |-> o, at |-> a] : o \in {"StorageTrie", "ContractRoot"}, a \in Addrs}

Init ==
    /\ snap \in Snapshots
    /\ call = NoCall

CallGetTrieRootAt ==
    /\ Idle
    /\ \E fault \in RootFaults :
           /\ call' = [op |-> "GetTrieRootAt", fault |-> fault,
                       ret |-> GetTrieRootAt(snap, fault)]
           /\ UNCHANGED snap

CallGetClassRange ==
    /\ Idle
    /\ \E startAddr \in Felts, limitAddr \in {Nil} \cup Felts, fault \in ClassFaults :
           /\ call' = [op |-> "GetClassRange", startAddr |-> startAddr,
                       limitAddr |-> limitAddr, fault |-> fault,
                       ret |-> GetClassRange(snap, startAddr, limitAddr, fault)]
           /\ UNCHANGED snap

CallGetAddressRange ==
    /\ Idle
    /\ \E startAddr \in Felts, limitAddr \in {Nil} \cup Felts, fault \in AddressFaults :
           /\ call' = [op |-> "GetAddressRange", startAddr |-> startAddr,
                       limitAddr |-> limitAddr, fault |-> fault,
                       ret |-> GetAddressRange(snap, startAddr, limitAddr, fault)]
           /\ UNCHANGED snap

CallGetContractRange ==
    /\ Idle
    /\ \E requests \in SeqsUpTo(RequestChoices, MaxRequests), fault \in ContractFaults :
           /\ call' = [op |-> "GetContractRange", requests |-> requests,
                       fault |-> fault,
                       ret |-> GetContractRange(snap, requests, fault)]
           /\ UNCHANGED snap

Next ==
    \/ CallGetTrieRootAt
    \/ CallGetClassRange
    \/ CallGetAddressRange
    \/ CallGetContractRange

Spec == Init /\ [][Next]_vars

(***************************************************************************)
(* Helpers of the properties.                                              *)
(***************************************************************************)
IsWalk == call.op = "iterateWithLimit"

WalkOk == IsWalk /\ call.ret.err = NoErr

KeysOf(proofs) == {proofs[i].Key : i \in 1 .. Len(proofs)}

DistinctKeys(proofs) ==
    \A i, j \in 1 .. Len(proofs) : i # j => proofs[i].Key # proofs[j].Key

StrictlyIncreasing(q) == \A i \in 1 .. Len(q) - 1 : q[i] < q[i + 1]

\* C1: on a walk that returns, with a limitKey set, a leaf whose key is
\* strictly greater than the limit and that comes after an accepted leaf is
\* not accepted: every returned path but the first is <= limitKey.
C1_LimitStopsWalk ==
    (WalkOk /\ call.limitAddr # Nil) =>
        \A i \in 2 .. Len(call.ret.walk.pathes) :
            call.ret.walk.pathes[i] <= call.limitAddr

\* C2: a walk that returns with maxCount >= 0 has accepted at most maxCount
\* leaves and invoked the visitor at most maxCount times, and maxCount = 0
\* gives an empty window with an empty proof.
C2_AtMostMaxCount ==
    (WalkOk /\ call.maxNode >= 0) =>
        /\ call.ret.walk.count <= call.maxNode
        /\ Len(call.ret.walk.response.visited) <= call.maxNode
        /\ Len(call.ret.walk.pathes) <= call.maxNode
        /\ call.maxNode = 0 =>
               (call.ret.walk.pathes = <<>> /\ call.ret.proofs = <<>>)

C8_ProofByCount ==
    WalkOk =>
        LET paths == call.ret.walk.pathes
            n == Len(paths)
        IN  /\ n = 0 => call.ret.proofs = <<>>
            /\ n = 1 => call.ret.proofs = ProofTo(snap.storage, paths[1])
            /\ n > 1 => call.ret.proofs =
                            merge(ProofTo(snap.storage, paths[1]),
                                  ProofTo(snap.storage, paths[n]))
            /\ (call.ret.proofs = <<>>) <=> (paths = <<>>)

\* A successful walk of several leaves whose merged proof is longer than
\* either boundary proof and shorter than both together.
C8_Witness ==
    /\ WalkOk
    /\ Len(call.ret.walk.pathes) > 1
    /\ LET paths == call.ret.walk.pathes
           l == ProofTo(snap.storage, paths[1])
           r == ProofTo(snap.storage, paths[Len(paths)])
       IN  /\ Len(call.ret.proofs) > Len(l)
           /\ Len(call.ret.proofs) < Len(l) + Len(r)

(***************************************************************************)
(* Properties of the server.                                               *)
(***************************************************************************)
IsContractRange == call.op = "GetContractRange"

ContractRangeOk == IsContractRange /\ call.ret.err = NoErr

IsPrefix(p, q) == Len(p) <= Len(q) /\ \A i \in 1 .. Len(p) : p[i] = q[i]

Count(q, x) == Cardinality({i \in 1 .. Len(q) : q[i] = x})

\* The leaves the storage trie of request r offers from r.StartAddr on.
LeavesFor(r) == IterateLeaves(snap.contracts[r.Path], r.StartAddr)

\* C3: a successful GetContractRange returns windows whose paths, summed
\* over all windows, number at most maxNodePerRequest.
C3_TotalWithinBudget ==
    ContractRangeOk =>
        SumPaths(call.ret.result.responses, Len(call.ret.result.responses))
            <= maxNodePerRequest

\* A successful batch of several windows that uses the whole budget and
\* cuts a window short of the leaves its trie holds.
C3_Witness ==
    /\ ContractRangeOk
    /\ Len(call.ret.result.responses) > 1
    /\ SumPaths(call.ret.result.responses, Len(call.ret.result.responses))
           = maxNodePerRequest
    /\ \E i \in 1 .. Len(call.ret.result.responses) :
           Len(call.ret.result.responses[i].Paths) < Len(LeavesFor(call.requests[i]))

\* C4: a processed request whose claimed storage root differs from the
\* root of the contract's storage trie makes the whole call return an error
\* and no result list, whatever earlier requests produced, and no walk is
\* run for that request.
C4_MismatchFailsWholeCall ==
    IsContractRange =>
        \A j \in 1 .. Len(call.ret.log) :
            LET r == call.requests[call.ret.log[j].index]
            IN  (r.Path \in DOMAIN snap.contracts
                    /\ Root(snap.contracts[r.Path]) # r.Hash) =>
                    /\ call.ret.err # NoErr
                    /\ call.ret.result.isNil
                    /\ ~call.ret.log[j].walked
                    /\ call.fault = NoFault => call.ret.err = "mismatch"

\* A batch whose first request was walked over a non-empty window and
\* whose second request claims a wrong root.
C4_Witness ==
    /\ IsContractRange
    /\ call.fault = NoFault
    /\ Len(call.ret.log) = 2
    /\ call.ret.log[1].walked
    /\ LeavesFor(call.requests[1]) # <<>>
    /\ ~call.ret.log[2].walked
    /\ call.requests[2].Path \in DOMAIN snap.contracts
    /\ call.ret.err = "mismatch"
    /\ call.ret.result.isNil

\* C5: a successful GetContractRange answers a prefix of the requests in
\* input order: output[i] is the window of requests[i], the loop goes on
\* only while budget is left, and stops, without error and without
\* resolving or walking any later request, once the budget is <= 0.
C5_PrefixInInputOrder ==
    ContractRangeOk =>
        LET out == call.ret.result.responses
            n == Len(out)
        IN  /\ n <= Len(call.requests)
            /\ Len(call.ret.log) = n
            /\ \A i \in 1 .. n :
                   /\ call.ret.log[i].index = i
                   /\ call.ret.log[i].walked
                   /\ IsPrefix(out[i].Paths, LeavesFor(call.requests[i]))
            /\ \A i \in 1 .. n - 1 : SumPaths(out, i) < maxNodePerRequest
            /\ n < Len(call.requests) => SumPaths(out, n) >= maxNodePerRequest

\* A successful batch that stops before its last request.
C5_Witness ==
    /\ ContractRangeOk
    /\ Len(call.ret.result.responses) >= 1
    /\ Len(call.ret.result.responses) < Len(call.requests)
    /\ call.requests[Len(call.requests)].Path \in DOMAIN snap.contracts

\* C6: a range call that returns an error returns no result with it.
C6_NoResultWithError ==
    (call.op \in {"GetClassRange", "GetAddressRange", "GetContractRange"}
        /\ call.ret.err # NoErr) => call.ret.result.isNil

\* C9: a successful range call returns strictly increasing paths and
\* parallel lists as long as paths.
C9_IncreasingParallelLists ==
    /\ (call.op = "GetClassRange" /\ call.ret.err = NoErr) =>
           /\ StrictlyIncreasing(call.ret.result.Paths)
           /\ Len(call.ret.result.ClassHashes) = Len(call.ret.result.Paths)
           /\ Len(call.ret.result.Classes) = Len(call.ret.result.Paths)
    /\ (call.op = "GetAddressRange" /\ call.ret.err = NoErr) =>
           /\ StrictlyIncreasing(call.ret.result.Paths)
           /\ Len(call.ret.result.Hashes) = Len(call.ret.result.Paths)
           /\ Len(call.ret.result.Leaves) = Len(call.ret.result.Paths)
    /\ ContractRangeOk =>
           \A i \in 1 .. Len(call.ret.result.responses) :
               /\ StrictlyIncreasing(call.ret.result.responses[i].Paths)
               /\ Len(call.ret.result.responses[i].Values)
                      = Len(call.ret.result.responses[i].Paths)

\* A successful class range of several paths.
C9_Witness ==
    /\ call.op = "GetClassRange"
    /\ call.ret.err = NoErr
    /\ Len(call.ret.result.Paths) > 1
    /\ Len(call.ret.result.Classes) = Len(call.ret.result.Paths)

IsServerCall ==
    call.op \in {"GetTrieRootAt", "GetClassRange", "GetAddressRange",
                 "GetContractRange"}

KeptOfRight(left, right) ==
    {j \in 1 .. Len(right) :
        /\ right[j].Key \notin KeysOf(left)
        /\ \A j2 \in 1 .. j - 1 : right[j2].Key # right[j].Key}

\* C11: for all node lists left and right, merge(left, right) is left, node
\* for node and in order, followed by exactly the nodes of right whose Key
\* was not yet in the accumulated result, in the order they have in right.
C11_LeftThenNewOfRight ==
    call.op = "merge" =>
        LET kept == KeptOfRight(call.left, call.right)
            n == Len(call.left)
        IN  /\ Len(call.ret) = n + Cardinality(kept)
            /\ \A i \in 1 .. n : call.ret[i] = call.left[i]
            /\ \A j \in kept :
                   call.ret[n + Cardinality({j2 \in kept : j2 <= j})]
                       = call.right[j]

\* A merge that drops the first node of right, whose Key left holds, and
\* appends the second after a non-empty left.
C11_Witness ==
    /\ call.op = "merge"
    /\ call.left # <<>>
    /\ Len(call.right) = 2
    /\ KeptOfRight(call.left, call.right) = {2}
    /\ call.ret = Append(call.left, call.right[2])

(***************************************************************************)
(* The window of a walk.                                                   *)
(***************************************************************************)
\* C12: on a successful walk the returned paths are the first len(paths)
\* keys of the trie that are >= startKey, ascending and with no key of the
\* trie skipped in between, and the visitor was invoked once for each
\* returned path, in that order, and for no other key.
C12_FirstKeysFromStart ==
    WalkOk =>
        LET paths == call.ret.walk.pathes
            n == Len(paths)
        IN  /\ StrictlyIncreasing(paths)
            /\ \A i \in 1 .. n :
                   paths[i] \in snap.storage /\ paths[i] >= call.startAddr
            /\ \A k \in snap.storage :
                   (n > 0 /\ k >= call.startAddr /\ k < paths[n]) =>
                       \E i \in 1 .. n : paths[i] = k
            /\ call.ret.walk.response.visited = paths
            /\ call.ret.walk.count = n

\* A walk stopped by maxNode after several leaves: it starts above
\* startKey at the first key of the trie and leaves later keys out.
C12_Witness ==
    /\ WalkOk
    /\ call.limitAddr = Nil
    /\ Len(call.ret.walk.pathes) = call.maxNode
    /\ call.maxNode > 1
    /\ call.ret.walk.pathes[1] > call.startAddr
    /\ \E k \in snap.storage : k > call.ret.walk.pathes[call.maxNode]
    /\ call.ret.proofs =
           merge(ProofTo(snap.storage, call.ret.walk.pathes[1]),
                 ProofTo(snap.storage, call.ret.walk.pathes[call.maxNode]))

(***************************************************************************)
(* The node limit of the per-request walks.                                *)
(***************************************************************************)
\* C13: at every invocation of the per-request walk in GetContractRange
\* the node limit passed is between 1 and maxNodePerRequest and equals
\* maxNodePerRequest minus the number of paths in the windows appended so
\* far; the walk is never invoked with a limit <= 0.
C13_WalkLimitIsRemainingBudget ==
    IsContractRange =>
        \A j \in 1 .. Len(call.ret.log) :
            call.ret.log[j].walked =>
                /\ call.ret.log[j].nodeLimit >= 1
                /\ call.ret.log[j].nodeLimit <= maxNodePerRequest
                /\ call.ret.log[j].nodeLimit
                       = maxNodePerRequest - call.ret.log[j].appended
                /\ ContractRangeOk =>
                       call.ret.log[j].appended
                           = SumPaths(call.ret.result.responses, j - 1)

\* A batch whose second walk runs on what the first window left of the
\* budget.
C13_Witness ==
    /\ ContractRangeOk
    /\ Len(call.ret.log) = 2
    /\ call.ret.log[2].walked
    /\ call.ret.log[2].appended > 0
    /\ call.ret.log[2].nodeLimit < maxNodePerRequest
    /\ Len(call.ret.result.responses[2].Paths) = call.ret.log[2].nodeLimit

====
